---------------------------- MODULE Spec2Model ----------------------------
(***************************************************************************)
(* Validator-set sourcing of the consensus engine:                         *)
(*   - genesis.rs            parse_validators_from_extra_data              *)
(*   - stake_hub_client.rs   Ord for ValidatorElectionInfo, the top-K      *)
(*                           selection over a BinaryHeap, the StakeHub     *)
(*                           fetches                                       *)
(*   - validator_executor.rs is_epoch_boundary and                         *)
(*                           get_validator_set_from_stake_hub              *)
(*                                                                         *)
(* Integers wider than TLC's are kept exactly, as little-endian sequences  *)
(* of base-10^5 limbs without leading zero limbs (zero is <<>>): u64 and   *)
(* U256 values are such sequences, so 10^10 and 2^64 are the program's own *)
(* values and not scaled-down stand-ins.                                   *)
(***************************************************************************)
EXTENDS Integers, Sequences, FiniteSets, TLC

VARIABLES
    pc,                     \* position of the operation under way
    extra_data,             \* genesis.rs: the extraData bytes handed to the parser
    genesis_result,         \* genesis.rs: what parse_validators_from_extra_data returned
    block_number,           \* validator_executor.rs: is_epoch_boundary's first argument
    epoch_length,           \* validator_executor.rs: is_epoch_boundary's second argument
    boundary,               \* validator_executor.rs: is_epoch_boundary's outcome
    keccak_high,            \* per address: the EIP-55 checksum hash nibbles that are >= 8
    max_elected,            \* stake_hub_client.rs: maxElectedValidators as decoded (U256)
    election_info,          \* stake_hub_client.rs: the four decoded sequences
    validators,             \* stake_hub_client.rs: the zipped Vec<ValidatorElectionInfo>
    elected,                \* stake_hub_client.rs: the selector's outcome
    calls,                  \* the contract functions called so far, in order
    assembled,              \* validator_executor.rs: the Validators built by the map closure
    result,                 \* validator_executor.rs: get_validator_set_from_stake_hub's outcome
    current_validator_set   \* the caller's active validator set

vars == << pc, extra_data, genesis_result, block_number, epoch_length, boundary,
           keccak_high, max_elected, election_info, validators, elected, calls,
           assembled, result, current_validator_set >>

---------------------------------------------------------------------------
(* Exact unsigned integers as limb sequences.                              *)

LimbBase == 10 ^ 5

RECURSIVE BigNorm(_)
BigNorm(s) ==
    IF s = << >> THEN << >>
    ELSE IF s[Len(s)] = 0 THEN BigNorm(SubSeq(s, 1, Len(s) - 1))
    ELSE s

\* a * m + c, for 0 <= c < LimbBase and 1 <= m <= 256
RECURSIVE BigMulAdd(_, _, _)
BigMulAdd(a, m, c) ==
    IF a = << >> THEN (IF c = 0 THEN << >> ELSE << c >>)
    ELSE LET t == Head(a) * m + c
         IN  BigNorm(<< t % LimbBase >> \o BigMulAdd(Tail(a), m, t \div LimbBase))

\* quotient and remainder of a by d, for 1 <= d <= 256
RECURSIVE BigDivMod(_, _)
BigDivMod(a, d) ==
    IF a = << >> THEN [q |-> << >>, r |-> 0]
    ELSE LET hi  == BigDivMod(Tail(a), d)
             cur == hi.r * LimbBase + Head(a)
         IN  [q |-> BigNorm(<< cur \div d >> \o hi.q), r |-> cur % d]

\* -1, 0, 1 as a is below, equal to, above b
RECURSIVE BigCmpFrom(_, _, _)
BigCmpFrom(a, b, i) ==
    IF i = 0 THEN 0
    ELSE IF a[i] < b[i] THEN -1
    ELSE IF a[i] > b[i] THEN 1
    ELSE BigCmpFrom(a, b, i - 1)

BigCmp(a, b) ==
    IF Len(a) < Len(b) THEN -1
    ELSE IF Len(a) > Len(b) THEN 1
    ELSE BigCmpFrom(a, b, Len(a))

\* a small natural (below LimbBase^2) as limbs
BigFromNat(n) == BigNorm(<< n % LimbBase, n \div LimbBase >>)

\* a limb sequence known to be below LimbBase^2, as a natural
BigToNat(a) ==
    IF a = << >> THEN 0
    ELSE IF Len(a) = 1 THEN a[1]
    ELSE a[1] + LimbBase * a[2]

\* the value of a big-endian byte string
RECURSIVE BigFromBeBytes(_)
BigFromBeBytes(bytes) ==
    IF bytes = << >> THEN << >>
    ELSE BigMulAdd(BigFromBeBytes(SubSeq(bytes, 1, Len(bytes) - 1)), 256,
                   bytes[Len(bytes)])

\* the n-byte big-endian form of a (a below 256^n)
RECURSIVE BigToBeBytes(_, _)
BigToBeBytes(a, n) ==
    IF n = 0 THEN << >>
    ELSE LET dm == BigDivMod(a, 256)
         IN  BigToBeBytes(dm.q, n - 1) \o << dm.r >>

AllOnes(n) == [i \in 1..n |-> 255]

U64_MAX == BigFromBeBytes(AllOnes(8))

IsU64(a) == BigCmp(a, U64_MAX) <= 0

\* n bytes counting up from base, wrapping at 256
Pattern(base, n) == [i \in 1..n |-> (base + i - 1) % 256]

---------------------------------------------------------------------------
(* genesis.rs                                                              *)

EXTRA_VANITY_LEN == 32
EXTRA_SEAL_LEN == 65

u64_from_be_bytes(bytes) == BigFromBeBytes(bytes)

\* a Rust slice data[from..to) of a 0-indexed byte vector
Slice(data, from, to) == SubSeq(data, from + 1, to)

GenesisErr(msg) ==
    [kind |-> "Err", error |-> msg, validators |-> << >>, epoch_length |-> << >>]

GenesisOk(vals, epoch) ==
    [kind |-> "Ok", error |-> "", validators |-> vals, epoch_length |-> epoch]

GenesisNone ==
    [kind |-> "None", error |-> "", validators |-> << >>, epoch_length |-> << >>]

middle_data_len(len) == len - EXTRA_VANITY_LEN - EXTRA_SEAL_LEN

validator_data_len_KeepsEpoch(middle) == middle

validator_data_len(middle) == middle - 8

validator_start_NoVanity(i) == i * 80

validator_start(i) == EXTRA_VANITY_LEN + (i * 80)

GenesisValidatorInfo(data, start) ==
    [consensus_address |-> Slice(data, start, start + 20),
     operator_address  |-> Slice(data, start + 20, start + 40),
     tendermint_pubkey |-> Slice(data, start + 48, start + 80),
     voting_power      |-> u64_from_be_bytes(Slice(data, start + 40, start + 48))]

parse_validators_from_extra_data(data) ==
    LET len     == Len(data)
        min_len == EXTRA_VANITY_LEN + EXTRA_SEAL_LEN
    IN  IF len < min_len
        THEN GenesisErr("extraData too short")
        ELSE IF middle_data_len(len) < 8
        THEN GenesisErr("middle section length is too short")
        ELSE LET epoch == u64_from_be_bytes(
                              Slice(data, len - EXTRA_SEAL_LEN - 8, len - EXTRA_SEAL_LEN))
                 vlen  == validator_data_len(middle_data_len(len))
             IN  IF vlen % 80 # 0
                 THEN GenesisErr("validator data length is not a multiple of 80")
                 ELSE GenesisOk(
                          [i \in 1..(vlen \div 80) |->
                              GenesisValidatorInfo(data, validator_start(i - 1))],
                          epoch)

---------------------------------------------------------------------------
(* validator_executor.rs: the epoch-boundary test                          *)

is_epoch_boundary_NoPositiveCheck(bn, el) ==
    IF el = 0 THEN "panic"
    ELSE IF bn % el = 0 THEN "true" ELSE "false"

\* block_number > 0 && block_number % epoch_length == 0: && evaluates its
\* right operand only when the left one holds, and u64 % 0 panics.
is_epoch_boundary(bn, el) ==
    IF bn > 0
    THEN IF el = 0 THEN "panic"
         ELSE IF bn % el = 0 THEN "true" ELSE "false"
    ELSE "false"

---------------------------------------------------------------------------
(* stake_hub_client.rs: the ordering of candidates                         *)

\* The 40 hex digits of a 20-byte address, most significant first.
HexNibbles(addr) ==
    [i \in 1..(2 * Len(addr)) |->
        IF i % 2 = 1 THEN addr[(i + 1) \div 2] \div 16 ELSE addr[i \div 2] % 16]

\* Address::to_string() is the EIP-55 form: "0x", then the hex digits, a letter
\* in upper case where the matching nibble of keccak256(lower-case hex) is 8 or
\* more. The hash is not computed: which nibbles are high is keccak_high[addr],
\* fixed per address and unknown. Characters are their ASCII codes.
HexChar(n, upper) ==
    IF n < 10 THEN 48 + n
    ELSE IF upper THEN 55 + n
    ELSE 87 + n

to_string(addr) ==
    << 48, 120 >> \o
    [i \in 1..(2 * Len(addr)) |-> HexChar(HexNibbles(addr)[i], i \in keccak_high[addr])]

\* str::cmp: byte-wise lexicographic, a proper prefix first
RECURSIVE StrCmpFrom(_, _, _)
StrCmpFrom(a, b, i) ==
    IF i > Len(a) /\ i > Len(b) THEN 0
    ELSE IF i > Len(a) THEN -1
    ELSE IF i > Len(b) THEN 1
    ELSE IF a[i] < b[i] THEN -1
    ELSE IF a[i] > b[i] THEN 1
    ELSE StrCmpFrom(a, b, i + 1)

StrCmp(a, b) == StrCmpFrom(a, b, 1)

ValidatorElectionInfo(addr, power, op, key) ==
    [consensus_address  |-> addr,
     voting_power       |-> power,
     operator_address   |-> op,
     tendermint_pub_key |-> key]

cmp_AddressNotReversed(self, other) ==
    LET c == BigCmp(self.voting_power, other.voting_power)
    IN  IF c = 0
        THEN StrCmp(to_string(self.consensus_address), to_string(other.consensus_address))
        ELSE c

\* impl Ord for ValidatorElectionInfo: -1, 0, 1 for Less, Equal, Greater
cmp(self, other) ==
    LET c == BigCmp(self.voting_power, other.voting_power)
    IN  IF c = 0
        THEN StrCmp(to_string(other.consensus_address), to_string(self.consensus_address))
        ELSE c

\* a <= b through PartialOrd
Le(a, b) == cmp(a, b) <= 0

---------------------------------------------------------------------------
(* std::collections::BinaryHeap, as push and pop run it. data is the heap's *)
(* vector; positions are 0-based as in the library, data[p + 1] is slot p.  *)
(* A hole holds its element out of the vector until it is filled.           *)

RECURSIVE sift_up(_, _, _, _)
sift_up(data, elt, start, pos) ==
    IF pos > start
    THEN LET parent == (pos - 1) \div 2
         IN  IF Le(elt, data[parent + 1])
             THEN [data EXCEPT ![pos + 1] = elt]
             ELSE sift_up([data EXCEPT ![pos + 1] = data[parent + 1]], elt, start, parent)
    ELSE [data EXCEPT ![pos + 1] = elt]

RECURSIVE sift_down_to_bottom(_, _, _, _)
sift_down_to_bottom(data, elt, start, pos) ==
    LET end   == Len(data)
        child == 2 * pos + 1
    IN  IF child <= (IF end >= 2 THEN end - 2 ELSE 0)
        THEN LET c == IF Le(data[child + 1], data[child + 2]) THEN child + 1 ELSE child
             IN  sift_down_to_bottom([data EXCEPT ![pos + 1] = data[c + 1]], elt, start, c)
        ELSE IF child = end - 1
        THEN sift_up([data EXCEPT ![pos + 1] = data[child + 1]], elt, start, child)
        ELSE sift_up(data, elt, start, pos)

heap_push(data, item) == sift_up(Append(data, item), item, 0, Len(data))

\* pop of a non-empty heap: the root, and the vector left
heap_pop(data) ==
    LET last == data[Len(data)]
        rest == SubSeq(data, 1, Len(data) - 1)
    IN  IF rest = << >>
        THEN [item |-> last, data |-> << >>]
        ELSE [item |-> rest[1], data |-> sift_down_to_bottom(rest, last, 0, 0)]

---------------------------------------------------------------------------
(* stake_hub_client.rs: the top-K selection                                *)

ElectedNone ==
    [kind |-> "None", consensus_addrs |-> << >>, voting_powers |-> << >>,
     operator_addrs |-> << >>, tendermint_pub_keys |-> << >>, picked |-> << >>]

\* Uint::to::<u64>() of a value above u64::MAX panics; so does the caller.
ElectedPanic ==
    [kind |-> "Panic", consensus_addrs |-> << >>, voting_powers |-> << >>,
     operator_addrs |-> << >>, tendermint_pub_keys |-> << >>, picked |-> << >>]

ElectedEmpty ==
    [kind |-> "Ok", consensus_addrs |-> << >>, voting_powers |-> << >>,
     operator_addrs |-> << >>, tendermint_pub_keys |-> << >>, picked |-> << >>]

\* voting_power / U256::from(10u64.pow(10)): 10^10 is LimbBase^2, so the
\* quotient is the value without its two low limbs.
scale_voting_power(power) ==
    IF Len(power) <= 2 THEN << >> ELSE SubSeq(power, 3, Len(power))

\* for validator in validators { if validator.voting_power > U256::ZERO { push } }
RECURSIVE fill_heap(_, _)
fill_heap(vals, heap) ==
    IF vals = << >> THEN heap
    ELSE fill_heap(Tail(vals),
                   IF BigCmp(Head(vals).voting_power, << >>) > 0
                   THEN heap_push(heap, Head(vals))
                   ELSE heap)

\* max_elected.to::<u64>() as usize, capped by the heap's length (usize is 64 bits)
top_n_of(k, heap_len) ==
    IF BigCmp(k, BigFromNat(heap_len)) > 0 THEN heap_len ELSE BigToNat(k)

\* for _ in 0..top_n { if let Some(validator) = validator_heap.pop() { ... } }
\* picked keeps the loop's successive values of validator, beside the four vectors.
RECURSIVE pop_top(_, _, _)
pop_top(heap, n, out) ==
    IF n = 0 THEN out
    ELSE IF heap = << >> THEN pop_top(heap, n - 1, out)
    ELSE LET p      == heap_pop(heap)
             scaled == scale_voting_power(p.item.voting_power)
         IN  IF ~IsU64(scaled) THEN ElectedPanic
             ELSE pop_top(p.data, n - 1,
                     [out EXCEPT
                        !.consensus_addrs     = Append(@, p.item.consensus_address),
                        !.voting_powers       = Append(@, scaled),
                        !.operator_addrs      = Append(@, p.item.operator_address),
                        !.tendermint_pub_keys = Append(@, p.item.tendermint_pub_key),
                        !.picked              = Append(@, p.item)])

get_top_validators_by_voting_power(vals, k) ==
    LET heap == fill_heap(vals, << >>)
    IN  IF ~IsU64(k) THEN ElectedPanic
        ELSE pop_top(heap, top_n_of(k, Len(heap)), ElectedEmpty)

---------------------------------------------------------------------------
(* stake_hub_client.rs and validator_executor.rs: producing the next set   *)

Min2(a, b) == IF a < b THEN a ELSE b

\* consensus_addresses.zip(voting_powers).zip(operator_addresses).zip(tendermint_pub_keys):
\* a zip ends with its shortest side
zip_election_info(info) ==
    LET n == Min2(Min2(Len(info.consensus_addresses), Len(info.voting_powers)),
                  Min2(Len(info.operator_addresses), Len(info.tendermint_pub_keys)))
    IN  [i \in 1..n |->
            ValidatorElectionInfo(info.consensus_addresses[i], info.voting_powers[i],
                                  info.operator_addresses[i], info.tendermint_pub_keys[i])]

InfoNone ==
    [consensus_addresses |-> << >>, voting_powers |-> << >>,
     operator_addresses |-> << >>, tendermint_pub_keys |-> << >>]

\* PublicKey::from_bytes of a [u8; 32]
PublicKey_from_bytes(bytes) == bytes

Validator(addr, power, op, key) ==
    [consensus_address |-> addr,
     operator_address  |-> op,
     public_key        |-> PublicKey_from_bytes(key),
     voting_power      |-> power]

\* The map closure over the zipped elected vectors, entry i on: try_into() of a
\* Vec<u8> into [u8; 32] is an Err unless the length is 32, and unwrap() panics.
RECURSIVE build_validators(_, _, _)
build_validators(e, i, built) ==
    LET n == Min2(Min2(Len(e.consensus_addrs), Len(e.voting_powers)),
                  Min2(Len(e.operator_addrs), Len(e.tendermint_pub_keys)))
    IN  IF i > n THEN [panic |-> FALSE, built |-> built]
        ELSE IF Len(e.tendermint_pub_keys[i]) # 32 THEN [panic |-> TRUE, built |-> built]
        ELSE build_validators(e, i + 1,
                 Append(built, Validator(e.consensus_addrs[i], e.voting_powers[i],
                                         e.operator_addrs[i], e.tendermint_pub_keys[i])))

\* ValidatorSet::new
ValidatorSet_new(vals) == vals

ResultNone    == [kind |-> "None", set |-> << >>]
ResultPanic   == [kind |-> "Panic", set |-> << >>]
ResultSome(s) == [kind |-> "OkSome", set |-> s]

ErrArm_Propagates == [kind |-> "Err", set |-> << >>]

\* Err(e) => { warn!(...); Ok(None) }
ErrArm == [kind |-> "OkNone", set |-> << >>]

---------------------------------------------------------------------------
(* Bounds and the inputs drawn within them.                                *)

MaxRecords    == 2      \* genesis records in a constructed extraData
MaxBlock      == 12     \* block numbers 0..MaxBlock
MaxEpoch      == 7      \* epoch lengths 0..MaxEpoch
MaxValidators == 3      \* candidates handed to the selector
MaxCandidates == 2      \* length of each sequence the contract returns

SeqsUpTo(S, n) == UNION {[1..k -> S] : k \in 0..n}

Fill(b, n) == [i \in 1..n |-> b]

Pow10_10 == << 0, 0, 1 >>

\* addresses 0xaaaa..., 0xbbbb...: their order as text depends on the checksum case
AddrAA == Fill(170, 20)
AddrBB == Fill(187, 20)
AddressPool == {AddrAA, AddrBB}
OperatorPool == {Fill(17, 20)}
KeyPool == {Pattern(1, 32), Pattern(1, 31)}

HashPool == {{}, 1..40}

\* 0, 10^10 + 9, 2 * 10^10 - 1, and 2^64 * 10^10, whose quotient is 2^64
SelectPowerPool ==
    { << >>, << 9, 0, 1 >>, << 99999, 99999, 1 >>, << 0, 0 >> \o BigMulAdd(U64_MAX, 1, 1) }

\* 0, 1 (below the divisor) and 10^10
ElectionPowerPool == { << >>, << 1 >>, Pow10_10 }

\* 1, the longest list the contract returns here, and 2^64
ElectionElectablePool ==
    {BigFromNat(1), BigFromNat(MaxCandidates), BigMulAdd(U64_MAX, 1, 1)}

\* 0..n, and 2^64
ElectablePool(n) == {BigFromNat(k) : k \in 0..n} \cup {BigMulAdd(U64_MAX, 1, 1)}

SelectCandidates ==
    {ValidatorElectionInfo(a, p, o, Pattern(1, 32)) :
        a \in AddressPool, p \in SelectPowerPool, o \in OperatorPool}

\* extraData as the layout builds it
EncodeRecord(r) ==
    r.consensus_address \o r.operator_address \o BigToBeBytes(r.voting_power, 8)
        \o r.tendermint_pubkey

RECURSIVE EncodeRecords(_)
EncodeRecords(rs) ==
    IF rs = << >> THEN << >> ELSE EncodeRecord(Head(rs)) \o EncodeRecords(Tail(rs))

EncodeExtraData(lead, rs, epoch, trail) ==
    lead \o EncodeRecords(rs) \o BigToBeBytes(epoch, 8) \o trail

GenesisRecordPool ==
    { [consensus_address |-> Pattern(16, 20), operator_address |-> Pattern(64, 20),
       tendermint_pubkey |-> Pattern(128, 32), voting_power |-> << 1 >>],
      [consensus_address |-> Pattern(200, 20), operator_address |-> Pattern(0, 20),
       tendermint_pubkey |-> Pattern(250, 32), voting_power |-> U64_MAX],
      [consensus_address |-> Pattern(90, 20), operator_address |-> Pattern(91, 20),
       tendermint_pubkey |-> Pattern(7, 32), voting_power |-> << 9, 0, 1 >>] }

\* 0, 200, 86400, 2^32 and 2^64 - 1
GenesisEpochPool ==
    { << >>, << 200 >>, << 86400 >>, << 67296, 42949 >>, U64_MAX }

WellFormedExtraData ==
    { EncodeExtraData(Pattern(lead, EXTRA_VANITY_LEN), rs, ep, Pattern(trail, EXTRA_SEAL_LEN)) :
        lead \in {0, 240}, rs \in SeqsUpTo(GenesisRecordPool, MaxRecords),
        ep \in GenesisEpochPool, trail \in {0, 99} }

\* every length up to one short of one record more than MaxRecords
AnyLengthExtraData ==
    { [i \in 1..n |-> (i * 7) % 256] :
        n \in 0..(EXTRA_VANITY_LEN + EXTRA_SEAL_LEN + 8 + 80 * MaxRecords + 79) }

BootstrapSet ==
    << Validator(Pattern(16, 20), << 1 >>, Pattern(64, 20), Pattern(128, 32)) >>

---------------------------------------------------------------------------
(* The state machines.                                                     *)

\* ---- genesis decode
InitGenesis ==
    /\ pc = "genesis_input"
    /\ extra_data \in WellFormedExtraData \cup AnyLengthExtraData
    /\ genesis_result = GenesisNone
    /\ block_number = 0 /\ epoch_length = 0 /\ boundary = "none"
    /\ keccak_high = [a \in AddressPool |-> {}]
    /\ max_elected = << >> /\ election_info = InfoNone /\ validators = << >>
    /\ elected = ElectedNone /\ calls = << >> /\ assembled = << >>
    /\ result = ResultNone /\ current_validator_set = BootstrapSet

ParseGenesis ==
    /\ pc = "genesis_input"
    /\ genesis_result' = parse_validators_from_extra_data(extra_data)
    /\ pc' = "genesis_done"
    /\ UNCHANGED << extra_data, block_number, epoch_length, boundary, keccak_high,
                    max_elected, election_info, validators, elected, calls, assembled,
                    result, current_validator_set >>

\* ---- epoch-boundary test
InitEpoch ==
    /\ pc = "epoch_input"
    /\ block_number \in 0..MaxBlock
    /\ epoch_length \in 0..MaxEpoch
    /\ boundary = "none"
    /\ extra_data = << >> /\ genesis_result = GenesisNone
    /\ keccak_high = [a \in AddressPool |-> {}]
    /\ max_elected = << >> /\ election_info = InfoNone /\ validators = << >>
    /\ elected = ElectedNone /\ calls = << >> /\ assembled = << >>
    /\ result = ResultNone /\ current_validator_set = BootstrapSet

CheckEpochBoundary ==
    /\ pc = "epoch_input"
    /\ boundary' = is_epoch_boundary(block_number, epoch_length)
    /\ pc' = "epoch_done"
    /\ UNCHANGED << extra_data, genesis_result, block_number, epoch_length, keccak_high,
                    max_elected, election_info, validators, elected, calls, assembled,
                    result, current_validator_set >>

\* ---- the selector on its own
InitSelect ==
    /\ pc = "select_input"
    /\ validators \in SeqsUpTo(SelectCandidates, MaxValidators)
    /\ max_elected \in ElectablePool(MaxValidators)
    /\ keccak_high \in [AddressPool -> HashPool]
    /\ elected = ElectedNone
    /\ extra_data = << >> /\ genesis_result = GenesisNone
    /\ block_number = 0 /\ epoch_length = 0 /\ boundary = "none"
    /\ election_info = InfoNone /\ calls = << >> /\ assembled = << >>
    /\ result = ResultNone /\ current_validator_set = BootstrapSet

Select ==
    /\ pc = "select_input"
    /\ elected' = get_top_validators_by_voting_power(validators, max_elected)
    /\ pc' = "selected"
    /\ UNCHANGED << extra_data, genesis_result, block_number, epoch_length, boundary,
                    keccak_high, max_elected, election_info, validators, calls,
                    assembled, result, current_validator_set >>

\* ---- get_validator_set_from_stake_hub, one action per contract call awaited
InitElection ==
    /\ pc = "call_max_elected"
    /\ keccak_high \in [AddressPool -> HashPool]
    /\ max_elected = << >> /\ election_info = InfoNone /\ validators = << >>
    /\ elected = ElectedNone /\ calls = << >> /\ assembled = << >>
    /\ result = ResultNone /\ current_validator_set = BootstrapSet
    /\ extra_data = << >> /\ genesis_result = GenesisNone
    /\ block_number = 0 /\ epoch_length = 0 /\ boundary = "none"

\* get_max_elected_validators().await?
CallMaxElected ==
    /\ pc = "call_max_elected"
    /\ calls' = Append(calls, "maxElectedValidators")
    /\ \/ /\ result' = ErrArm
          /\ pc' = "returned"
          /\ UNCHANGED max_elected
       \/ /\ \E k \in ElectionElectablePool : max_elected' = k
          /\ pc' = "call_election_info"
          /\ UNCHANGED result
    /\ UNCHANGED << extra_data, genesis_result, block_number, epoch_length, boundary,
                    keccak_high, election_info, validators, elected, assembled,
                    current_validator_set >>

\* get_validator_election_info().await?, then the zip, the selection and the assembly
CallElectionInfo ==
    /\ pc = "call_election_info"
    /\ calls' = Append(calls, "getValidatorElectionInfo")
    /\ \/ /\ result' = ErrArm
          /\ pc' = "returned"
          /\ UNCHANGED << election_info, validators, elected, assembled >>
       \/ \E addrs \in SeqsUpTo(AddressPool, MaxCandidates),
             powers \in SeqsUpTo(ElectionPowerPool, MaxCandidates),
             ops \in SeqsUpTo(OperatorPool, MaxCandidates),
             keys \in SeqsUpTo(KeyPool, MaxCandidates) :
            LET info == [consensus_addresses |-> addrs, voting_powers |-> powers,
                         operator_addresses |-> ops, tendermint_pub_keys |-> keys]
                vals == zip_election_info(info)
                top  == get_top_validators_by_voting_power(vals, max_elected)
                made == build_validators(top, 1, << >>)
            IN  /\ election_info' = info
                /\ validators' = vals
                /\ elected' = top
                /\ IF top.kind = "Panic"
                   THEN /\ assembled' = << >>
                        /\ result' = ResultPanic
                        /\ pc' = "panicked"
                   ELSE /\ assembled' = made.built
                        /\ IF made.panic
                           THEN result' = ResultPanic /\ pc' = "panicked"
                           ELSE /\ result' = ResultSome(ValidatorSet_new(made.built))
                                /\ pc' = "returned"
    /\ UNCHANGED << extra_data, genesis_result, block_number, epoch_length, boundary,
                    keccak_high, max_elected, current_validator_set >>

\* the caller: a new set replaces the active one, "no new set" keeps it
AdoptValidatorSet ==
    /\ pc = "returned"
    /\ current_validator_set' =
           IF result.kind = "OkSome" THEN result.set ELSE current_validator_set
    /\ pc' = "adopted"
    /\ UNCHANGED << extra_data, genesis_result, block_number, epoch_length, boundary,
                    keccak_high, max_elected, election_info, validators, elected, calls,
                    assembled, result >>

NextGenesis  == ParseGenesis
NextEpoch    == CheckEpochBoundary
NextSelect   == Select
NextElection == CallMaxElected \/ CallElectionInfo \/ AdoptValidatorSet

SpecGenesis  == InitGenesis /\ [][NextGenesis]_vars
SpecEpoch    == InitEpoch /\ [][NextEpoch]_vars
SpecSelect   == InitSelect /\ [][NextSelect]_vars
SpecElection == InitElection /\ [][NextElection]_vars

Init == InitGenesis \/ InitEpoch \/ InitSelect \/ InitElection
Next == NextGenesis \/ NextEpoch \/ NextSelect \/ NextElection
Spec == Init /\ [][Next]_vars

---------------------------------------------------------------------------
(* The claims.                                                             *)

Range(s) == {s[i] : i \in 1..Len(s)}

CountIn(s, v) == Cardinality({i \in 1..Len(s) : s[i] = v})

IsPositive(power) == BigCmp(power, << >>) > 0

TextLess(a, b) == StrCmp(to_string(a), to_string(b)) < 0

\* two positive-power candidates of equal raw power and distinct addresses
Tied(x, y) ==
    /\ IsPositive(x.voting_power)
    /\ x.voting_power = y.voting_power
    /\ x.consensus_address # y.consensus_address

\* the positive-power candidates the selection left out
LeftOut ==
    {v \in Range(validators) :
        IsPositive(v.voting_power) /\ CountIn(validators, v) > CountIn(elected.picked, v)}

Selected == pc = "selected" /\ elected.kind = "Ok"

\* C1 as stated: of two tied candidates the one whose textual address is
\* lexicographically greater comes earlier in the output, and is the one elected
\* when only one of them fits.
C1_GreaterAddressFirst ==
    Selected =>
        /\ \A p, q \in 1..Len(elected.picked) :
              (p < q /\ Tied(elected.picked[p], elected.picked[q]))
                  => TextLess(elected.consensus_addrs[q], elected.consensus_addrs[p])
        /\ \A p \in 1..Len(elected.picked) : \A v \in LeftOut :
              Tied(elected.picked[p], v)
                  => TextLess(v.consensus_address, elected.consensus_addrs[p])

\* C1 amended: of two tied candidates the one whose textual (EIP-55) address is
\* lexicographically smaller comes earlier in the output, and is the one elected
\* when only one of them fits.
C1_SmallerAddressFirst ==
    Selected =>
        /\ \A p, q \in 1..Len(elected.picked) :
              (p < q /\ Tied(elected.picked[p], elected.picked[q]))
                  => TextLess(elected.consensus_addrs[p], elected.consensus_addrs[q])
        /\ \A p \in 1..Len(elected.picked) : \A v \in LeftOut :
              Tied(elected.picked[p], v)
                  => TextLess(elected.consensus_addrs[p], v.consensus_address)

\* 0xBB... elected ahead of a tied 0xaa... that came first in the input (upper
\* case sorts before lower case), a third candidate of the same power left out
C1_Witness ==
    /\ Selected
    /\ Len(validators) = 3
    /\ validators[1].consensus_address = AddrAA
    /\ Len(elected.picked) = 2
    /\ Tied(elected.picked[1], elected.picked[2])
    /\ elected.consensus_addrs = << AddrBB, AddrAA >>
    /\ LeftOut # {}

\* the number of positive-power candidates, and min(K, P)
PositiveCount == Cardinality({i \in 1..Len(validators) : IsPositive(validators[i].voting_power)})

MinKP ==
    IF BigCmp(max_elected, BigFromNat(PositiveCount)) > 0
    THEN PositiveCount ELSE BigToNat(max_elected)

TopKShape ==
    /\ Len(elected.consensus_addrs) = MinKP
    /\ Len(elected.voting_powers) = MinKP
    /\ Len(elected.operator_addrs) = MinKP
    /\ Len(elected.tendermint_pub_keys) = MinKP
    /\ Len(elected.picked) = MinKP
    /\ \A i \in 1..Len(elected.picked) :
          /\ IsPositive(elected.picked[i].voting_power)
          /\ elected.consensus_addrs[i] = elected.picked[i].consensus_address
          /\ elected.operator_addrs[i] = elected.picked[i].operator_address
          /\ elected.tendermint_pub_keys[i] = elected.picked[i].tendermint_pub_key
    /\ \A v \in Range(elected.picked) : CountIn(elected.picked, v) <= CountIn(validators, v)
    /\ \A i, j \in 1..Len(elected.picked) :
          i < j => BigCmp(elected.picked[i].voting_power, elected.picked[j].voting_power) >= 0
    /\ \A v \in LeftOut : \A i \in 1..Len(elected.picked) :
          BigCmp(v.voting_power, elected.picked[i].voting_power) <= 0

\* C5 as stated: for every candidate list and every K the selection yields
\* min(K, P) entries, none of zero power, each a distinct input candidate, in
\* non-increasing raw-power order, no left-out candidate above a selected one,
\* the four sequences aligned.
C5_TopKForEveryInput == pc = "selected" => (elected.kind = "Ok" /\ TopKShape)

\* What the code does keep of C5: the same, whenever the selection returns.
TopKWhenReturned == Selected => TopKShape

\* q is raw / 10^10 truncated: q * 10^10 <= raw < (q + 1) * 10^10
TimesPow10_10(q) == IF q = << >> THEN << >> ELSE << 0, 0 >> \o q

IsTruncatedQuotient(q, raw) ==
    /\ BigCmp(TimesPow10_10(q), raw) <= 0
    /\ BigCmp(raw, TimesPow10_10(BigMulAdd(q, 1, 1))) < 0

\* C10 as stated: for every elected candidate and every raw power of the U256
\* range the selection completes, with the power raw / 10^10 truncated.
C10_ScalingCompletes ==
    (pc = "selected" /\ IsU64(max_elected)) =>
        /\ elected.kind = "Ok"
        /\ \A i \in 1..Len(elected.picked) :
              IsTruncatedQuotient(elected.voting_powers[i], elected.picked[i].voting_power)

\* What the code does keep of C10: truncation, whenever the selection returns.
ScalingWhenReturned ==
    Selected =>
        \A i \in 1..Len(elected.picked) :
            IsTruncatedQuotient(elected.voting_powers[i], elected.picked[i].voting_power)

Finished == pc \in {"returned", "panicked", "adopted"}

\* C2 as stated: when an elected candidate's public key is not 32 bytes wide,
\* get_validator_set_from_stake_hub returns Ok(None) and builds no validator.
C2_BadKeyYieldsNone ==
    (Finished /\ \E i \in 1..Len(elected.tendermint_pub_keys) :
                     Len(elected.tendermint_pub_keys[i]) # 32)
        => (result = ErrArm /\ assembled = << >>)

SameLengths(info) ==
    /\ Len(info.consensus_addresses) = Len(info.voting_powers)
    /\ Len(info.voting_powers) = Len(info.operator_addresses)
    /\ Len(info.operator_addresses) = Len(info.tendermint_pub_keys)

\* C3 as stated: when the four sequences the contract returned differ in length
\* the fetch is a failure: no candidate list is cut to the shortest and no
\* validator set is built from it.
C3_LengthMismatchFails ==
    (Finished /\ ~SameLengths(election_info))
        => (result = ErrArm /\ validators = << >> /\ assembled = << >>)

\* C9 as stated: every validator of a returned set has positive voting power.
C9_PositivePower ==
    (Finished /\ result.kind = "OkSome")
        => \A i \in 1..Len(result.set) : IsPositive(result.set[i].voting_power)

\* a fetch failed: the operation is over and the selection never ran
FetchFailed == pc \in {"returned", "adopted"} /\ elected.kind = "None"

C4_State ==
    FetchFailed =>
        /\ result = [kind |-> "OkNone", set |-> << >>]
        /\ assembled = << >>
        /\ validators = << >>
        /\ election_info = InfoNone
        /\ current_validator_set = BootstrapSet
        /\ calls \in { << "maxElectedValidators" >>,
                       << "maxElectedValidators", "getValidatorElectionInfo" >> }

C4_Step == (pc # "call_max_elected" /\ result # ResultNone) => calls' = calls

\* C4: when either fetch fails the outcome is Ok(None), never an error; no
\* validator is built; the active set is as it was; and once the operation has
\* its outcome no further fetch is made (a failed first fetch ends it).
C4_FetchFailureKeepsSet == [](C4_State) /\ [][C4_Step]_vars

\* the first fetch failed, the caller has kept its set
C4_Witness ==
    /\ pc = "adopted"
    /\ calls = << "maxElectedValidators" >>
    /\ result.kind = "OkNone"
    /\ current_validator_set = BootstrapSet

GenesisDone == pc = "genesis_done"

MinExtraDataLen == EXTRA_VANITY_LEN + 8 + EXTRA_SEAL_LEN

\* the length is 32 + 80 * N + 8 + 65 for some N >= 0
WellFormedLen(len) == len >= MinExtraDataLen /\ (len - MinExtraDataLen) % 80 = 0

\* C6: an extraData of 32 + 80 * N + 8 + 65 bytes decodes to exactly N records,
\* record i being the bytes [32 + 80i, 32 + 80i + 80) as address (20), address
\* (20), big-endian u64 (8), key (32), and to the epoch length the 8 bytes after
\* the records encode; nothing else of the input is used.
C6_WellFormedDecodes ==
    (GenesisDone /\ WellFormedLen(Len(extra_data))) =>
        LET n == (Len(extra_data) - MinExtraDataLen) \div 80
            r == genesis_result
        IN  /\ r.kind = "Ok"
            /\ Len(r.validators) = n
            /\ \A i \in 1..n :
                  /\ Len(r.validators[i].consensus_address) = 20
                  /\ Len(r.validators[i].operator_address) = 20
                  /\ Len(r.validators[i].tendermint_pubkey) = 32
                  /\ IsU64(r.validators[i].voting_power)
                  /\ EncodeRecord(r.validators[i])
                         = SubSeq(extra_data, EXTRA_VANITY_LEN + 80 * (i - 1) + 1,
                                  EXTRA_VANITY_LEN + 80 * i)
            /\ IsU64(r.epoch_length)
            /\ BigToBeBytes(r.epoch_length, 8)
                   = SubSeq(extra_data, EXTRA_VANITY_LEN + 80 * n + 1,
                            EXTRA_VANITY_LEN + 80 * n + 8)

\* two different records, the second of power 2^64 - 1, epoch length 86400
C6_Witness ==
    /\ GenesisDone
    /\ genesis_result.kind = "Ok"
    /\ Len(genesis_result.validators) = 2
    /\ genesis_result.validators[1].voting_power = << 1 >>
    /\ genesis_result.validators[2].voting_power = U64_MAX
    /\ genesis_result.validators[2].consensus_address = Pattern(200, 20)
    /\ genesis_result.epoch_length = << 86400 >>

\* C7: the decode is a format error, with no validators and no epoch length,
\* when the length is below 97, else when the middle is below 8 bytes, else
\* when the record region is no multiple of 80, the first broken rule naming
\* the error; it succeeds exactly for the lengths 105 + 80 * N.
C7_FormatErrors ==
    GenesisDone =>
        LET len == Len(extra_data)
            r   == genesis_result
        IN  /\ len < 97 => (r.kind = "Err" /\ r.error = "extraData too short")
            /\ (len >= 97 /\ len - 97 < 8)
                  => (r.kind = "Err" /\ r.error = "middle section length is too short")
            /\ (len >= 105 /\ (len - 105) % 80 # 0)
                  => (r.kind = "Err"
                      /\ r.error = "validator data length is not a multiple of 80")
            /\ (r.kind = "Ok") <=> (\E n \in 0..len : len = 105 + 80 * n)
            /\ r.kind \in {"Ok", "Err"}
            /\ r.kind = "Err" => (r.validators = << >> /\ r.epoch_length = << >>)

\* 117 bytes: a record region of 12 bytes
C7_Witness ==
    /\ GenesisDone
    /\ Len(extra_data) = 117
    /\ genesis_result.kind = "Err"
    /\ genesis_result.error = "validator data length is not a multiple of 80"

EpochDone == pc = "epoch_done"

\* b is k * el for some k
Divisible(b, el) == \E k \in 0..b : b = k * el

IsPositiveMultiple(b, el) == b > 0 /\ Divisible(b, el)

===========================================================================
